---------------------------- MODULE Spec2Model ----------------------------
(***************************************************************************)
(* Model of src/src/taskpane/taskpane.js: the task-pane click handler      *)
(* runGpmCalculation, its status helper updateStatus, and the part of the  *)
(* Excel host (request batches, context.sync) the handler talks to.        *)
(*                                                                         *)
(* Text is a sequence of one-character strings, so that trim() and         *)
(* toLowerCase() are computed and not assumed.  Amounts are integers; the  *)
(* quotient grossProfit / revenue is kept as an exact fraction in lowest   *)
(* terms.                                                                  *)
(***************************************************************************)
EXTENDS Integers, Sequences, FiniteSets, TLC

VARIABLES
    table,      \* values of the data body range of DataSheet!InputData
    sheets,     \* the workbook's worksheet collection, in order
    active,     \* name of the active worksheet
    status,     \* the #status element: [text, color]
    inv,        \* one activation record per invocation of runGpmCalculation
    escaped,    \* TRUE once a rejection left runGpmCalculation unhandled
    written,    \* history: per output sheet name, the block the last successful run wrote
    overlap     \* history: TRUE iff the latest click came while another invocation was in flight

vars == <<table, sheets, active, status, inv, escaped, written, overlap>>

(***************************************************************************)
(* Bounds of the model.                                                    *)
(***************************************************************************)
\* longest table the row scan is checked on
MaxRows == 3

(***************************************************************************)
(* Text.                                                                   *)
(***************************************************************************)
WhiteSpace == {" "}

UpperCase == <<"A","B","C","D","E","F","G","H","I","J","K","L","M",
               "N","O","P","Q","R","S","T","U","V","W","X","Y","Z">>

LowerCase == <<"a","b","c","d","e","f","g","h","i","j","k","l","m",
               "n","o","p","q","r","s","t","u","v","w","x","y","z">>

\* the lower-case letter of each upper-case letter
lowerOf ==
    [c \in {UpperCase[k] : k \in DOMAIN UpperCase} |->
        LowerCase[CHOOSE k \in DOMAIN UpperCase : UpperCase[k] = c]]

\* String.prototype.toLowerCase, one character
toLowerChar(c) == IF c \in DOMAIN lowerOf THEN lowerOf[c] ELSE c

\* String.prototype.toLowerCase
toLowerCase(s) == [k \in DOMAIN s |-> toLowerChar(s[k])]

RECURSIVE trimStart(_)
trimStart(s) ==
    IF s # <<>> /\ Head(s) \in WhiteSpace THEN trimStart(Tail(s)) ELSE s

RECURSIVE trimEnd(_)
trimEnd(s) ==
    IF s # <<>> /\ s[Len(s)] \in WhiteSpace
    THEN trimEnd(SubSeq(s, 1, Len(s) - 1))
    ELSE s

\* String.prototype.trim
trim(s) == trimEnd(trimStart(s))

(***************************************************************************)
(* Cells.  Range.values holds a string for a text cell ("" for an empty    *)
(* cell) and a number for a numeric cell.                                  *)
(***************************************************************************)
Str(s) == [t |-> "string", v |-> s]
Num(n) == [t |-> "number", v |-> n]

\* JavaScript truthiness of a cell value: "" and 0 are falsy
truthy(c) == IF c.t = "string" THEN c.v # <<>> ELSE c.v # 0

Digits == <<"0","1","2","3","4","5","6","7","8","9">>

RECURSIVE natToString(_)
natToString(n) ==
    IF n < 10 THEN <<Digits[n + 1]>>
    ELSE natToString(n \div 10) \o <<Digits[(n % 10) + 1]>>

\* String(value) of a cell value
String(c) ==
    IF c.t = "string" THEN c.v
    ELSE IF c.v < 0 THEN <<"-">> \o natToString(-c.v) ELSE natToString(c.v)

\* line 65: row[1] ? String(row[1]).trim() : ""
currentPeriod(row) == IF truthy(row[2]) THEN trim(String(row[2])) ELSE <<>>

\* a slip: line 66 without .trim()
currentAccountUntrimmed(row) ==
    IF truthy(row[1]) THEN toLowerCase(String(row[1])) ELSE <<>>

\* line 66: row[0] ? String(row[0]).trim().toLowerCase() : ""
currentAccount(row) ==
    IF truthy(row[1]) THEN toLowerCase(trim(String(row[1]))) ELSE <<>>

\* line 68: typeof row[2] === 'number' ? row[2] : 0
currentAmount(row) == IF row[3].t = "number" THEN row[3].v ELSE 0

REVENUE == <<"r","e","v","e","n","u","e">>
COGS == <<"c","o","g","s">>

\* lines 55-58: the accumulators before the loop
ScanStart == [revenue |-> 0, cogs |-> 0, foundRevenue |-> FALSE, foundCogs |-> FALSE]

\* lines 63-83: the loop body for one row
ScanRow(acc, row, trimmedPeriod) ==
    IF currentPeriod(row) = trimmedPeriod
    THEN CASE currentAccount(row) = REVENUE ->
                [acc EXCEPT !.revenue = @ + currentAmount(row), !.foundRevenue = TRUE]
           [] currentAccount(row) = COGS ->
                [acc EXCEPT !.cogs = @ + currentAmount(row), !.foundCogs = TRUE]
           [] OTHER -> acc
    ELSE acc

\* lines 62-84: for (let i = 0; i < tableValues.length; i++), from row i on
RECURSIVE ScanFrom(_, _, _, _)
ScanFrom(i, acc, tableValues, trimmedPeriod) ==
    IF i <= Len(tableValues)
    THEN ScanFrom(i + 1, ScanRow(acc, tableValues[i], trimmedPeriod),
                  tableValues, trimmedPeriod)
    ELSE acc

\* lines 53-84: the whole row scan
RowScan(tableValues, trimmedPeriod) == ScanFrom(1, ScanStart, tableValues, trimmedPeriod)


(***************************************************************************)
(* Calculation and output block (lines 102-137).                           *)
(***************************************************************************)
Abs(n) == IF n < 0 THEN -n ELSE n

RECURSIVE GCD(_, _)
GCD(a, b) == IF b = 0 THEN Abs(a) ELSE GCD(b, a % b)

\* the quotient n / d of two numbers, d > 0, as a fraction in lowest terms
Quotient(n, d) == [num |-> n \div GCD(n, d), den |-> d \div GCD(n, d)]

\* line 103
grossProfit(revenue, cogs) == revenue - cogs

\* a slip: the margin clamped to 0 from below
grossProfitMarginClamped(revenue, cogs) ==
    IF grossProfit(revenue, cogs) < 0 THEN Quotient(0, revenue)
    ELSE Quotient(grossProfit(revenue, cogs), revenue)

\* line 104
grossProfitMargin(revenue, cogs) == Quotient(grossProfit(revenue, cogs), revenue)

\* line 108: `GPM_${trimmedPeriod}`
outputSheetName(trimmedPeriod) == <<"G","P","M","_">> \o trimmedPeriod

null == "<null>"

\* lines 129-137
outputData(trimmedPeriod, revenue, cogs) ==
    << <<"Period:", trimmedPeriod>>,
       <<null, null>>,
       <<"Metric", "Value">>,
       <<"Revenue", revenue>>,
       <<"COGS", cogs>>,
       <<"Gross Profit", grossProfit(revenue, cogs)>>,
       <<"Gross Profit Margin", grossProfitMargin(revenue, cogs)>> >>

(***************************************************************************)
(* The status line (lines 185-191) and the messages written to it.         *)
(* A template string is the sequence of its literal and interpolated parts.*)
(***************************************************************************)
updateStatus(message, isError) ==
    [text |-> message, color |-> IF isError THEN "red" ELSE "#555"]

\* line 29
MsgEnterPeriod == <<"Error: Please enter a period.">>
\* line 34
MsgCalculating(trimmedPeriod) == <<"Calculating GPM for period ", trimmedPeriod, "...">>
\* line 89
MsgNoRevenue(trimmedPeriod) == <<"Error: No 'Revenue' found for period ", trimmedPeriod, ".">>
\* line 93
MsgNoCogs(trimmedPeriod) == <<"Error: No 'COGS' found for period ", trimmedPeriod, ".">>
\* line 98
MsgNotPositive(revenue, trimmedPeriod) ==
    <<"Error: Revenue (", revenue, ") is zero or negative for period ",
      trimmedPeriod, ". Cannot calculate margin.">>
\* line 162
MsgComplete(name) == <<"Calculation complete. Results on sheet '", name, "'.">>
\* lines 172, 175
MsgError(error) ==
    IF error.office
    THEN <<"Error: ", error.message, " (Debug: ",
           IF error.errorLocation # "" THEN error.errorLocation ELSE "N/A", ")">>
    ELSE <<"Error: ", error.message>>

(***************************************************************************)
(* The host: worksheets and the operations a request batch can hold.       *)
(***************************************************************************)
DataSheetName == <<"D","a","t","a","S","h","e","e","t">>

NoError == [office |-> FALSE, message |-> "", errorLocation |-> ""]
ItemAlreadyExists ==
    [office |-> TRUE, message |-> "ItemAlreadyExists", errorLocation |-> "WorksheetCollection.add"]
ItemNotFound ==
    [office |-> TRUE, message |-> "ItemNotFound", errorLocation |-> "Worksheet.delete"]
\* failures the host can raise at any request: an OfficeExtension.Error without an
\* error location, and an error that is no OfficeExtension.Error
HostFailures ==
    { [office |-> TRUE, message |-> "GeneralException", errorLocation |-> ""],
      [office |-> FALSE, message |-> "NetworkError", errorLocation |-> ""] }

Op(op, name, values) == [op |-> op, name |-> name, values |-> values]

\* lines 40-46: worksheets.getItem("DataSheet").tables.getItem("InputData")
\*              .getDataBodyRange().load("values")
LoadValues == Op("load values", DataSheetName, <<>>)
\* lines 111-113: worksheets.getItemOrNullObject(name).load("name")
LoadSheet(name) == Op("load sheet", name, <<>>)
\* a slip: line 119 left out, the sheet is looked up and not deleted
DeleteSheetSkipped(name) == Op("load sheet", name, <<>>)

\* line 119: existingSheet.delete()
DeleteSheet(name) == Op("delete", name, <<>>)
\* line 125: worksheets.add(name)
AddSheet(name) == Op("add", name, <<>>)
\* lines 140-142: outputSheet.getRange("A1:B7").values = outputData
SetValues(name, values) == Op("values", name, values)
\* lines 145-153: number formats, bold header rows, autofit
SetFormats(name) == Op("format", name, <<>>)
\* line 156: outputSheet.activate()
Activate(name) == Op("activate", name, <<>>)

Named(ss, name) == {k \in DOMAIN ss : ss[k].name = name}

Without(ss, name) == SelectSeq(ss, LAMBDA s : s.name # name)

NewSheet(name) == [name |-> name, values |-> <<>>, formatted |-> FALSE]

\* The host's state as one request sees and changes it: the worksheets, the
\* active sheet, and the properties the request loads into the context.
World(ss, act, vals, isNull) ==
    [sheets |-> ss, active |-> act, values |-> vals, isNullObject |-> isNull,
     error |-> NoError]

\* one queued operation applied by the host
ApplyOp(o, w) ==
    CASE o.op = "load values" -> [w EXCEPT !.values = table]
      [] o.op = "load sheet" -> [w EXCEPT !.isNullObject = (Named(w.sheets, o.name) = {})]
      [] o.op = "delete" ->
            IF Named(w.sheets, o.name) = {}
            THEN [w EXCEPT !.error = ItemNotFound]
            ELSE [w EXCEPT !.sheets = Without(w.sheets, o.name),
                           !.active = IF w.active = o.name
                                      THEN Without(w.sheets, o.name)[1].name
                                      ELSE w.active]
      [] o.op = "add" ->
            IF Named(w.sheets, o.name) # {}
            THEN [w EXCEPT !.error = ItemAlreadyExists]
            ELSE [w EXCEPT !.sheets = Append(w.sheets, NewSheet(o.name))]
      [] o.op = "values" ->
            [w EXCEPT !.sheets = [k \in DOMAIN w.sheets |->
                IF w.sheets[k].name = o.name
                THEN [w.sheets[k] EXCEPT !.values = o.values] ELSE w.sheets[k]]]
      [] o.op = "format" ->
            [w EXCEPT !.sheets = [k \in DOMAIN w.sheets |->
                IF w.sheets[k].name = o.name
                THEN [w.sheets[k] EXCEPT !.formatted = TRUE] ELSE w.sheets[k]]]
      [] o.op = "activate" -> [w EXCEPT !.active = o.name]

\* the operations of a batch applied in order, up to the first that fails
RECURSIVE ApplyOps(_, _)
ApplyOps(ops, w) ==
    IF ops = <<>> \/ w.error # NoError THEN w
    ELSE ApplyOps(Tail(ops), ApplyOp(Head(ops), w))


(***************************************************************************)
(* Invocations of runGpmCalculation.  pc names the context.sync() the      *)
(* invocation is suspended at, by its source line.                         *)
(***************************************************************************)
Invocations == {1, 2}

SyncPoints == {"L49", "L114", "L121", "L159"}

Pending == [state |-> "pending", error |-> NoError]
Resolved == [state |-> "resolved", error |-> NoError]
Rejected(error) == [state |-> "rejected", error |-> error]

\* an activation record that is not running
Idle ==
    [pc |-> "idle", periodInput |-> <<>>, trimmedPeriod |-> <<>>,
     tableValues |-> <<>>, revenue |-> 0, cogs |-> 0,
     foundRevenue |-> FALSE, foundCogs |-> FALSE,
     existingSheet |-> [isNullObject |-> TRUE],
     batch |-> <<>>, result |-> [state |-> "none", error |-> NoError]]

AllIdle == \A i \in Invocations : inv[i].pc = "idle"

\* context.sync(): the queued operations leave as one request
Sync(r, pc, ops) == [r EXCEPT !.pc = pc, !.batch = ops, !.result = Pending]

\* a variant: the button disabled while an invocation is running
ButtonDisabledWhileRunning == AllIdle

\* line 14: onclick = runGpmCalculation; the button is never disabled
ButtonEnabled == TRUE

\* a slip: line 28 without the trim() test
isBlankUntrimmed(periodInput) == periodInput = <<>>

\* line 28: !periodInput || periodInput.trim() === ""
isBlank(periodInput) == periodInput = <<>> \/ trim(periodInput) = <<>>

\* lines 24-49: the click, up to the first context.sync()
runGpmCalculation(i, periodInput) ==
    /\ ButtonEnabled
    /\ inv[i].pc = "idle"
    /\ overlap' = (\E j \in Invocations : inv[j].pc # "idle")
    /\ IF isBlank(periodInput)
       THEN /\ status' = updateStatus(MsgEnterPeriod, TRUE)
            /\ inv' = inv
       ELSE /\ status' = updateStatus(MsgCalculating(trim(periodInput)), FALSE)
            /\ inv' = [inv EXCEPT ![i] =
                  Sync([Idle EXCEPT !.periodInput = periodInput,
                                    !.trimmedPeriod = trim(periodInput)],
                       "L49", <<LoadValues>>)]
    /\ UNCHANGED <<table, sheets, active, escaped, written>>

\* The host takes the request of invocation i: it applies the first k queued
\* operations and then either fails, or (k the whole batch) answers.  An
\* operation the host rejects ends the request with that error.
HostSync(i) ==
    /\ inv[i].pc \in SyncPoints
    /\ inv[i].result = Pending
    /\ \E k \in 0..Len(inv[i].batch), failure \in HostFailures :
          LET r == inv[i]
              w == ApplyOps(SubSeq(r.batch, 1, k),
                            World(sheets, active, r.tableValues,
                                  r.existingSheet.isNullObject))
              error == IF w.error # NoError THEN w.error
                       ELSE IF k < Len(r.batch) THEN failure ELSE NoError
          IN  /\ sheets' = w.sheets
              /\ active' = w.active
              /\ inv' = [inv EXCEPT ![i] =
                    IF error = NoError
                    THEN [r EXCEPT !.tableValues = w.values,
                                   !.existingSheet = [isNullObject |-> w.isNullObject],
                                   !.result = Resolved]
                    ELSE [r EXCEPT !.result = Rejected(error)]]
    /\ UNCHANGED <<table, status, escaped, written, overlap>>

\* a slip: line 97 with < for <=
validationErrorZeroAllowed(acc, trimmedPeriod) ==
    IF ~acc.foundRevenue THEN MsgNoRevenue(trimmedPeriod)
    ELSE IF ~acc.foundCogs THEN MsgNoCogs(trimmedPeriod)
    ELSE IF acc.revenue < 0 THEN MsgNotPositive(acc.revenue, trimmedPeriod)
    ELSE <<>>

\* a slip: the checks of lines 88 and 92 in the other order
validationErrorCogsFirst(acc, trimmedPeriod) ==
    IF ~acc.foundCogs THEN MsgNoCogs(trimmedPeriod)
    ELSE IF ~acc.foundRevenue THEN MsgNoRevenue(trimmedPeriod)
    ELSE IF acc.revenue <= 0 THEN MsgNotPositive(acc.revenue, trimmedPeriod)
    ELSE <<>>

\* lines 88-100: the message of the check that fails, <<>> when all pass
validationError(acc, trimmedPeriod) ==
    IF ~acc.foundRevenue THEN MsgNoRevenue(trimmedPeriod)
    ELSE IF ~acc.foundCogs THEN MsgNoCogs(trimmedPeriod)
    ELSE IF acc.revenue <= 0 THEN MsgNotPositive(acc.revenue, trimmedPeriod)
    ELSE <<>>

\* lines 86-114: the activation record after the checks: returned, or
\* suspended at the existence check of the output sheet
afterLoad(r) ==
    LET acc == RowScan(r.tableValues, r.trimmedPeriod)
    IN  IF validationError(acc, r.trimmedPeriod) # <<>>
        THEN Idle
        ELSE Sync([r EXCEPT !.revenue = acc.revenue, !.cogs = acc.cogs,
                            !.foundRevenue = acc.foundRevenue,
                            !.foundCogs = acc.foundCogs],
                  "L114", <<LoadSheet(outputSheetName(r.trimmedPeriod))>>)

\* lines 86-100: the status line after the checks
afterLoadStatus(r) ==
    LET message == validationError(RowScan(r.tableValues, r.trimmedPeriod), r.trimmedPeriod)
    IN  IF message # <<>> THEN updateStatus(message, TRUE) ELSE status

\* lines 51-114: after the table values arrived
AfterSync49(i) ==
    /\ inv[i].pc = "L49"
    /\ inv[i].result = Resolved
    /\ status' = afterLoadStatus(inv[i])
    /\ inv' = [inv EXCEPT ![i] = afterLoad(inv[i])]
    /\ UNCHANGED <<table, sheets, active, escaped, written, overlap>>

\* lines 125-159: the operations queued for the final context.sync()
outputBatch(r) ==
    LET name == outputSheetName(r.trimmedPeriod)
    IN  << AddSheet(name),
           SetValues(name, outputData(r.trimmedPeriod, r.revenue, r.cogs)),
           SetFormats(name),
           Activate(name) >>

\* a slip: lines 117-122 left out, the create queued over an existing sheet
afterExistenceCheckNoDelete(r) == Sync(r, "L159", outputBatch(r))

\* a slip: line 121 left out, the delete and the create in one request
afterExistenceCheckOneRequest(r) ==
    IF ~r.existingSheet.isNullObject
    THEN Sync(r, "L159", <<DeleteSheet(outputSheetName(r.trimmedPeriod))>> \o outputBatch(r))
    ELSE Sync(r, "L159", outputBatch(r))

\* lines 116-159: after the existence check of the output sheet arrived
afterExistenceCheck(r) ==
    IF ~r.existingSheet.isNullObject
    THEN Sync(r, "L121", <<DeleteSheet(outputSheetName(r.trimmedPeriod))>>)
    ELSE Sync(r, "L159", outputBatch(r))

AfterSync114(i) ==
    /\ inv[i].pc = "L114"
    /\ inv[i].result = Resolved
    /\ inv' = [inv EXCEPT ![i] = afterExistenceCheck(inv[i])]
    /\ UNCHANGED <<table, sheets, active, status, escaped, written, overlap>>

\* lines 124-159: after the delete was flushed
AfterSync121(i) ==
    /\ inv[i].pc = "L121"
    /\ inv[i].result = Resolved
    /\ inv' = [inv EXCEPT ![i] = Sync(inv[i], "L159", outputBatch(inv[i]))]
    /\ UNCHANGED <<table, sheets, active, status, escaped, written, overlap>>

SheetValues(ss, name) ==
    IF Named(ss, name) = {} THEN <<>> ELSE ss[CHOOSE k \in Named(ss, name) : TRUE].values

\* lines 161-164: after the final context.sync()
AfterSync159(i) ==
    /\ inv[i].pc = "L159"
    /\ inv[i].result = Resolved
    /\ LET name == outputSheetName(inv[i].trimmedPeriod)
       IN  /\ status' = updateStatus(MsgComplete(name), FALSE)
           /\ written' = [written EXCEPT ![name] = SheetValues(sheets, name)]
    /\ inv' = [inv EXCEPT ![i] = Idle]
    /\ UNCHANGED <<table, sheets, active, escaped, overlap>>

\* a slip: the catch block throws the error on
catchErrorRethrown(error) == [status |-> status, escaped |-> TRUE]

\* lines 165-177: what the catch block leaves: the status line, and whether the
\* error went on to the caller
catchError(error) ==
    [status |-> updateStatus(MsgError(error), TRUE), escaped |-> escaped]

\* a rejected context.sync() throws into the try block of line 25
Catch(i) ==
    /\ inv[i].pc \in SyncPoints
    /\ inv[i].result.state = "rejected"
    /\ status' = catchError(inv[i].result.error).status
    /\ escaped' = catchError(inv[i].result.error).escaped
    /\ inv' = [inv EXCEPT ![i] = Idle]
    /\ UNCHANGED <<table, sheets, active, written, overlap>>

\* lines 53-84 alone: the row scan, stopped before the checks of line 88
ScanRows(i) ==
    /\ inv[i].pc = "L49"
    /\ inv[i].result = Resolved
    /\ LET acc == RowScan(inv[i].tableValues, inv[i].trimmedPeriod)
       IN  inv' = [inv EXCEPT ![i] =
              [@ EXCEPT !.pc = "scanned", !.revenue = acc.revenue, !.cogs = acc.cogs,
                        !.foundRevenue = acc.foundRevenue, !.foundCogs = acc.foundCogs]]
    /\ UNCHANGED <<table, sheets, active, status, escaped, written, overlap>>

(***************************************************************************)
(* Inputs.                                                                 *)
(***************************************************************************)
Q1 == <<"Q","1">>
Q2 == <<"Q","2">>

\* what the period box can hold at a click
PeriodInputs == { <<>>, <<" ">>, Q1, <<" ","Q","1"," ">>, Q2 }

OutputNames == { outputSheetName(trim(p)) : p \in {q \in PeriodInputs : ~isBlank(q)} }

Row(account, period, amount) == <<Str(account), Str(period), amount>>

\* a sample of InputData: every choice of its rows, in order, is a table
SampleTable ==
    << Row(<<"R","e","v","e","n","u","e"," ">>, Q1, Num(10)),
       Row(<<" ","c","o","g","s">>, <<"Q","1"," ">>, Num(4)),
       Row(<<"R","E","V","E","N","U","E">>, <<" ","Q","1">>, Num(-10)),
       Row(<<"C","O","G","S">>, Q1, Str(<<"n","/","a">>)),
       Row(<<"c","o","g","s">>, Q1, Num(20)),
       Row(<<"r","e","v","e","n","u","e">>, Q2, Num(5)),
       Row(<<"C","o","g","s">>, Q2, Num(-5)),
       Row(<<"r","e","v","e","n","u","e">>, <<"q","1">>, Num(3)) >>

RECURSIVE SelectRows(_, _)
SelectRows(t, keep) ==
    IF t = <<>> THEN <<>>
    ELSE (IF Len(t) \in keep THEN SelectRows(SubSeq(t, 1, Len(t) - 1), keep) \o <<t[Len(t)]>>
          ELSE SelectRows(SubSeq(t, 1, Len(t) - 1), keep))

SampleTables == { SelectRows(SampleTable, keep) : keep \in SUBSET DOMAIN SampleTable }

\* rows the row scan is checked on: accounts and periods with white space and
\* in other case, an amount that is text, another period, another account,
\* an empty account cell, an empty period cell
ScanRowsUniverse ==
    { SampleTable[k] : k \in {1, 2, 3, 4, 6, 8} } \cup
    { Row(<<"O","t","h","e","r">>, Q1, Num(7)),
      Row(<<>>, Q1, Num(1)),
      Row(<<"c","o","g","s">>, <<>>, Num(2)) }

RECURSIVE SeqsUpTo(_, _)
SeqsUpTo(S, n) ==
    IF n = 0 THEN {<<>>}
    ELSE SeqsUpTo(S, n - 1) \cup
         { Append(t, x) : t \in {u \in SeqsUpTo(S, n - 1) : Len(u) = n - 1}, x \in S }

ScanTables == SeqsUpTo(ScanRowsUniverse, MaxRows)

DataSheet == [name |-> DataSheetName, values |-> <<>>, formatted |-> FALSE]

\* an output sheet left in the workbook by an earlier session
StaleSheet == [name |-> outputSheetName(Q1), values |-> outputData(Q1, 1, 0), formatted |-> TRUE]

(***************************************************************************)
(* Specifications.                                                         *)
(***************************************************************************)
InitWith(tables, workbooks) ==
    /\ table \in tables
    /\ sheets \in workbooks
    /\ active = DataSheetName
    /\ status = updateStatus(<<>>, FALSE)
    /\ inv = [i \in Invocations |-> Idle]
    /\ escaped = FALSE
    /\ written = [n \in OutputNames |-> <<>>]
    /\ overlap = FALSE

Workbooks == { <<DataSheet>>, <<DataSheet, StaleSheet>> }

Init == InitWith(SampleTables, Workbooks)

Click(i) == \E periodInput \in PeriodInputs : runGpmCalculation(i, periodInput)

Continue(i) ==
    \/ AfterSync49(i)
    \/ AfterSync114(i)
    \/ AfterSync121(i)
    \/ AfterSync159(i)
    \/ Catch(i)

\* the user waits for one calculation to end before the next click
Next ==
    \/ AllIdle /\ Click(1)
    \/ \E i \in Invocations : HostSync(i)
    \/ \E i \in Invocations : Continue(i)

Spec == Init /\ [][Next]_vars

\* the user clicks at any time; a click takes the first free activation record
FreeSlot(i) ==
    /\ inv[i].pc = "idle"
    /\ \A j \in Invocations : j < i => inv[j].pc # "idle"

NextOverlap ==
    \/ \E i \in Invocations : FreeSlot(i) /\ Click(i)
    \/ \E i \in Invocations : HostSync(i)
    \/ \E i \in Invocations : Continue(i)

\* the tables of the first rows of the sample: a period with valid data, with
\* revenue summing to zero, without revenue, without COGS
OverlapTables == { SelectRows(SubSeq(SampleTable, 1, 3), keep) : keep \in SUBSET (1..3) }

InitOverlap == InitWith(OverlapTables, Workbooks)

SpecOverlap == InitOverlap /\ [][NextOverlap]_vars

\* one click on a fresh task pane, up to the end of the row scan
InitScan == InitWith(ScanTables, { <<DataSheet>> })

NextScan ==
    \/ AllIdle /\ status.text = <<>> /\ Click(1)
    \/ HostSync(1)
    \/ ScanRows(1)

SpecScan == InitScan /\ [][NextScan]_vars


(***************************************************************************)
(* What the properties below are stated with: trimming, matching and       *)
(* summing said directly, not by the handler's loop.                       *)
(***************************************************************************)
\* t is s without its leading and trailing white space
IsTrimOf(t, s) ==
    /\ t = <<>> \/ (t[1] \notin WhiteSpace /\ t[Len(t)] \notin WhiteSpace)
    /\ \E a \in 0..Len(s) :
          /\ a + Len(t) <= Len(s)
          /\ SubSeq(s, a + 1, a + Len(t)) = t
          /\ \A k \in DOMAIN s : (k <= a \/ k > a + Len(t)) => s[k] \in WhiteSpace

OnlyWhiteSpace(s) == \A k \in DOMAIN s : s[k] \in WhiteSpace

\* t reads as the lower-case word w when case is ignored
ReadsAs(t, w) ==
    /\ Len(t) = Len(w)
    /\ \A k \in DOMAIN t :
          \/ t[k] = w[k]
          \/ \E u \in DOMAIN UpperCase : UpperCase[u] = t[k] /\ LowerCase[u] = w[k]

\* the rows of table t whose period is P and whose account reads as w
RowsFor(t, P, w) ==
    { k \in DOMAIN t :
        /\ IsTrimOf(P, t[k][2].v)
        /\ \E a \in 0..Len(t[k][1].v), b \in 0..Len(t[k][1].v) :
              /\ a <= b
              /\ IsTrimOf(SubSeq(t[k][1].v, a + 1, b), t[k][1].v)
              /\ ReadsAs(SubSeq(t[k][1].v, a + 1, b), w) }

RECURSIVE SumOfAmounts(_, _)
SumOfAmounts(t, rows) ==
    IF rows = {} THEN 0
    ELSE LET k == CHOOSE x \in rows : TRUE
         IN  (IF t[k][3].t = "number" THEN t[k][3].v ELSE 0) + SumOfAmounts(t, rows \ {k})

sumRevenue(P, R) == SumOfAmounts(R, RowsFor(R, P, REVENUE))
sumCogs(P, R) == SumOfAmounts(R, RowsFor(R, P, COGS))

\* R holds the data the calculation for P needs
ValidData(P, R) ==
    /\ RowsFor(R, P, REVENUE) # {}
    /\ RowsFor(R, P, COGS) # {}
    /\ sumRevenue(P, R) > 0

\* block is the 7x2 output block for P over R
IsOutputBlock(block, P, R) ==
    /\ Len(block) = 7
    /\ \A k \in 1..7 : Len(block[k]) = 2
    /\ block[1] = <<"Period:", P>>
    /\ block[2] = <<null, null>>
    /\ block[3] = <<"Metric", "Value">>
    /\ block[4] = <<"Revenue", sumRevenue(P, R)>>
    /\ block[5] = <<"COGS", sumCogs(P, R)>>
    /\ block[6] = <<"Gross Profit", sumRevenue(P, R) - sumCogs(P, R)>>
    /\ block[7][1] = "Gross Profit Margin"
    /\ block[7][2].den > 0
    /\ block[7][2].num * sumRevenue(P, R) = (sumRevenue(P, R) - sumCogs(P, R)) * block[7][2].den

\* invocation i returns in this step
Returns(i) == inv[i].pc # "idle" /\ inv'[i].pc = "idle"

\* invocation i goes on after its context.sync() of line 49 in this step
ResumesAfterLoad(i) == inv[i].pc = "L49" /\ inv[i].result = Resolved /\ inv'[i] # inv[i]

Queued(r) == { r.batch[k] : k \in DOMAIN r.batch }

\* an upper bound on the steps activation record r has before it returns
StepsLeft(r) ==
    (CASE r.pc = "L49" -> 6 [] r.pc = "L114" -> 4 [] r.pc = "L121" -> 2
       [] r.pc = "L159" -> 0 [] OTHER -> -2)
    + (IF r.result = Pending THEN 2 ELSE 1)

(***************************************************************************)
(* C1: an invocation whose period P has at least one revenue row and one   *)
(* COGS row in the table, with summed revenue > 0, and whose requests the  *)
(* host does not reject, returns with the success status naming GPM_P; the *)
(* workbook then has exactly one sheet GPM_P, it is the active sheet, and  *)
(* it holds the 7x2 block with the summed revenue, the summed COGS, their  *)
(* difference and the unclamped quotient difference / revenue.             *)
(***************************************************************************)
C1_ValidRunWritesOutputSheet ==
    [][\A i \in Invocations :
          (/\ Returns(i)
           /\ inv[i].result.state # "rejected"
           /\ ValidData(inv[i].trimmedPeriod, table))
          => LET P == inv[i].trimmedPeriod
                 name == <<"G","P","M","_">> \o P
             IN  /\ P # <<>>
                 /\ status' = [text |-> MsgComplete(name), color |-> "#555"]
                 /\ Cardinality(Named(sheets', name)) = 1
                 /\ active' = name
                 /\ IsOutputBlock(SheetValues(sheets', name), P, table)]_vars

\* a finished run over two revenue rows whose margin is negative
C1_Witness ==
    /\ AllIdle
    /\ table = <<SampleTable[1], SampleTable[5], SampleTable[6], SampleTable[8]>>
    /\ status.text = MsgComplete(outputSheetName(Q1))
    /\ active = outputSheetName(Q1)
    /\ SheetValues(sheets, outputSheetName(Q1))[7][2] = [num |-> -1, den |-> 1]

(***************************************************************************)
(* C2: run again for the same period over the same table, after the first  *)
(* run has finished, the handler replaces the output sheet: its create is  *)
(* never rejected as a duplicate name, and when its final request is done  *)
(* the workbook has exactly one sheet GPM_<period>, holding the block the  *)
(* earlier run wrote.                                                      *)
(***************************************************************************)
C2_SecondRunReplacesSheet ==
    \A i \in Invocations :
        /\ inv[i].result.error # ItemAlreadyExists
        /\ (/\ inv[i].pc = "L159"
            /\ inv[i].result = Resolved
            /\ written[outputSheetName(inv[i].trimmedPeriod)] # <<>>)
           => LET name == outputSheetName(inv[i].trimmedPeriod)
              IN  /\ Cardinality(Named(sheets, name)) = 1
                  /\ SheetValues(sheets, name) = written[name]

\* the final request of a second run for Q1 is done, over the sheet the
\* first run left
C2_Witness ==
    /\ inv[1].pc = "L159"
    /\ inv[1].result = Resolved
    /\ ~inv[1].existingSheet.isNullObject
    /\ written[outputSheetName(Q1)] # <<>>
    /\ SheetValues(sheets, outputSheetName(Q1)) = written[outputSheetName(Q1)]
    /\ inv[1].trimmedPeriod = Q1

(***************************************************************************)
(* C3: with a revenue row and a COGS row for the period but summed revenue *)
(* <= 0, the invocation shows the invalid-margin error in red and returns  *)
(* with nothing queued; the worksheets, their contents and the active      *)
(* sheet are as before.                                                    *)
(***************************************************************************)
C3_NonPositiveRevenueAborts ==
    [][\A i \in Invocations :
          LET P == inv[i].trimmedPeriod
          IN  (/\ ResumesAfterLoad(i)
               /\ RowsFor(table, P, REVENUE) # {}
               /\ RowsFor(table, P, COGS) # {}
               /\ sumRevenue(P, table) <= 0)
              => /\ status' = [text |-> MsgNotPositive(sumRevenue(P, table), P),
                               color |-> "red"]
                 /\ inv'[i].pc = "idle"
                 /\ inv'[i].batch = <<>>
                 /\ sheets' = sheets
                 /\ active' = active]_vars

\* revenue 10 - 10 = 0 for Q1: the error is shown and the sheet GPM_Q1 of an
\* earlier session is still there
C3_Witness ==
    /\ AllIdle
    /\ status = [text |-> MsgNotPositive(0, Q1), color |-> "red"]
    /\ SheetValues(sheets, outputSheetName(Q1)) = StaleSheet.values

(***************************************************************************)
(* C4: without a revenue row for the period the invocation shows the       *)
(* missing-revenue error naming the trimmed period, also when there is no  *)
(* COGS row either; with a revenue row and no COGS row it shows the        *)
(* missing-COGS error naming the trimmed period, also when the summed      *)
(* revenue is <= 0.  In both cases it returns with nothing queued and the  *)
(* workbook as before.                                                     *)
(***************************************************************************)
C4_MissingDataReported ==
    [][\A i \in Invocations :
          LET P == inv[i].trimmedPeriod
          IN  (ResumesAfterLoad(i) /\
                 (RowsFor(table, P, REVENUE) = {} \/ RowsFor(table, P, COGS) = {}))
              => /\ status' =
                      [text |-> IF RowsFor(table, P, REVENUE) = {}
                                THEN MsgNoRevenue(P) ELSE MsgNoCogs(P),
                       color |-> "red"]
                 /\ inv'[i].pc = "idle"
                 /\ inv'[i].batch = <<>>
                 /\ sheets' = sheets
                 /\ active' = active]_vars

\* neither a revenue nor a COGS row for Q1: the revenue error is the one shown
C4_Witness ==
    /\ AllIdle
    /\ RowsFor(table, Q1, REVENUE) = {}
    /\ RowsFor(table, Q1, COGS) = {}
    /\ status = [text |-> MsgNoRevenue(Q1), color |-> "red"]


(***************************************************************************)
(* C5: a click on an empty or all-white-space period shows the validation  *)
(* error in red and does nothing else: no invocation enters Excel.run, no  *)
(* request is queued or sent, the workbook is as before.  Any invocation   *)
(* that is running works with the trimmed input: it is not empty, it is    *)
(* the input without leading and trailing white space, the sums are over   *)
(* the rows matching it, the output sheet is named GPM_ + it, and it is    *)
(* the period cell of the output block.                                    *)
(***************************************************************************)
C5_BlankPeriodRejectedElseTrimmed ==
    /\ [][\A i \in Invocations, v \in PeriodInputs :
            (OnlyWhiteSpace(v) /\ runGpmCalculation(i, v))
            => /\ status' = [text |-> MsgEnterPeriod, color |-> "red"]
               /\ inv' = inv
               /\ sheets' = sheets
               /\ active' = active]_vars
    /\ [](\A i \in Invocations :
            inv[i].pc # "idle" =>
                LET P == inv[i].trimmedPeriod
                IN  /\ P # <<>>
                    /\ IsTrimOf(P, inv[i].periodInput)
                    /\ \A o \in Queued(inv[i]) :
                          /\ o.name \in {DataSheetName, <<"G","P","M","_">> \o P}
                          /\ o.op = "values" => o.values[1] = <<"Period:", P>>
                    /\ inv[i].pc \in {"L114", "L121", "L159"} =>
                          /\ inv[i].revenue = sumRevenue(P, table)
                          /\ inv[i].cogs = sumCogs(P, table))

\* the validation error is on the status line and nothing runs
C5_Witness ==
    /\ AllIdle
    /\ status = [text |-> MsgEnterPeriod, color |-> "red"]
    /\ written = [n \in OutputNames |-> <<>>]

(***************************************************************************)
(* C6: no request of an invocation holds both the delete and the create of *)
(* one sheet name; and an invocation queues the create either after its    *)
(* existence check found no sheet, or after the request that held only its *)
(* delete has completed.                                                   *)
(***************************************************************************)
C6_DeleteFlushedBeforeCreate ==
    /\ [](\A i \in Invocations : \A o1, o2 \in Queued(inv[i]) :
            ~(o1.op = "delete" /\ o2.op = "add" /\ o1.name = o2.name))
    /\ [][\A i \in Invocations :
            (\E o \in Queued(inv'[i]) \ Queued(inv[i]) : o.op = "add")
            => \/ /\ inv[i].pc = "L114"
                  /\ inv[i].result = Resolved
                  /\ inv[i].existingSheet.isNullObject
               \/ /\ inv[i].pc = "L121"
                  /\ inv[i].result = Resolved
                  /\ ~inv[i].existingSheet.isNullObject
                  /\ inv[i].batch =
                        <<Op("delete", <<"G","P","M","_">> \o inv[i].trimmedPeriod, <<>>)>>]_vars

\* the create is queued, after an existing sheet was deleted
C6_Witness ==
    \E i \in Invocations :
        /\ inv[i].pc = "L159"
        /\ inv[i].result = Pending
        /\ ~inv[i].existingSheet.isNullObject
        /\ AddSheet(outputSheetName(inv[i].trimmedPeriod)) \in Queued(inv[i])
        /\ Named(sheets, outputSheetName(inv[i].trimmedPeriod)) = {}

(***************************************************************************)
(* C7: no rejection leaves the handler; an invocation that has started is  *)
(* never stuck (the host can answer its request, or it can go on) and each *)
(* of its steps brings it nearer to its return, so it returns after at     *)
(* most eight steps; a click on a blank period                             *)
(* leaves the validation error in red; an invocation that returns after a  *)
(* rejected request leaves that error's message in red, one that returns   *)
(* otherwise leaves a missing-data or non-positive-revenue error in red or *)
(* the success message in the neutral colour, never "Calculating..."; and  *)
(* the status line is neutral only when empty, "Calculating..." or the     *)
(* success message.                                                        *)
(***************************************************************************)
C7_EveryFailureEndsAsRedStatus ==
    /\ [](escaped = FALSE)
    /\ [](status.color = "#555" <=>
            \/ status.text = <<>>
            \/ status.text[1] \in {"Calculating GPM for period ",
                                   "Calculation complete. Results on sheet '"})
    /\ [][\A i \in Invocations, v \in PeriodInputs :
            (isBlank(v) /\ runGpmCalculation(i, v))
            => status' = [text |-> MsgEnterPeriod, color |-> "red"]]_vars
    /\ [][\A i \in Invocations :
            Returns(i) =>
                LET P == inv[i].trimmedPeriod
                IN  IF inv[i].result.state = "rejected"
                    THEN /\ status'.color = "red"
                         /\ status'.text[1] = "Error: "
                         /\ status'.text[2] = inv[i].result.error.message
                    ELSE \/ /\ status'.color = "red"
                            /\ status'.text[1] \in
                                 {"Error: No 'Revenue' found for period ",
                                  "Error: No 'COGS' found for period ",
                                  "Error: Revenue ("}
                         \/ /\ status'.color = "#555"
                            /\ status'.text[1] = "Calculation complete. Results on sheet '"]_vars
    /\ [](\A i \in Invocations :
            inv[i].pc # "idle" => ENABLED (HostSync(i) \/ Continue(i)))
    /\ [][\A i \in Invocations :
            (inv[i].pc # "idle" /\ inv'[i] # inv[i])
            => StepsLeft(inv'[i]) < StepsLeft(inv[i])]_vars

\* the final request failed and the invocation returned with the error in red
C7_Witness ==
    /\ AllIdle
    /\ status.color = "red"
    /\ status.text = <<"Error: ", "GeneralException", " (Debug: ", "N/A", ")">>
    /\ \E k \in DOMAIN sheets :
          sheets[k].name = outputSheetName(Q1) /\ sheets[k].values # <<>> /\ ~sheets[k].formatted

(***************************************************************************)
(* C8: after the row scan, revenue and cogs are the sums of the numeric    *)
(* amounts (0 for any other amount) over exactly the rows whose trimmed    *)
(* period is the trimmed input and whose trimmed, lower-cased account is   *)
(* "revenue", respectively "cogs"; no row counts for both; and each found  *)
(* flag says whether such a row exists, numeric amount or not.             *)
(***************************************************************************)
C8_ScanSumsMatchingRows ==
    \A i \in Invocations :
        inv[i].pc = "scanned" =>
            LET P == inv[i].trimmedPeriod
            IN  /\ inv[i].tableValues = table
                /\ inv[i].revenue = sumRevenue(P, table)
                /\ inv[i].cogs = sumCogs(P, table)
                /\ inv[i].foundRevenue = (RowsFor(table, P, REVENUE) # {})
                /\ inv[i].foundCogs = (RowsFor(table, P, COGS) # {})
                /\ RowsFor(table, P, REVENUE) \cap RowsFor(table, P, COGS) = {}

\* a scan that matched "Revenue " and a COGS row whose amount is text, and
\* passed over a row of another period
C8_Witness ==
    /\ inv[1].pc = "scanned"
    /\ inv[1].periodInput = <<" ","Q","1"," ">>
    /\ table = <<SampleTable[1], SampleTable[4], SampleTable[6]>>
    /\ inv[1].revenue = 10
    /\ inv[1].foundCogs /\ inv[1].cogs = 0


(***************************************************************************)
(* C9: once an invocation has had the existing output sheet deleted, that  *)
(* sheet is gone: while the final request is pending the workbook has no   *)
(* sheet of that name; if the final request is rejected, a sheet of that   *)
(* name is at most the new one, as far as the request got, and is not the  *)
(* active sheet; and the invocation then returns with the error in red and *)
(* the workbook as the failed request left it.                             *)
(***************************************************************************)
C9_NoRollbackAfterDelete ==
    /\ [](\A i \in Invocations :
            LET name == outputSheetName(inv[i].trimmedPeriod)
            IN  (/\ inv[i].pc = "L159"
                 /\ ~inv[i].existingSheet.isNullObject
                 /\ inv[i].result.state \in {"pending", "rejected"})
                => /\ inv[i].result = Pending => Named(sheets, name) = {}
                   /\ active # name
                   /\ Cardinality(Named(sheets, name)) <= 1
                   /\ SheetValues(sheets, name) \in
                        {<<>>, outputData(inv[i].trimmedPeriod, inv[i].revenue, inv[i].cogs)})
    /\ [][\A i \in Invocations :
            (/\ Returns(i)
             /\ inv[i].pc = "L159"
             /\ ~inv[i].existingSheet.isNullObject
             /\ inv[i].result.state = "rejected")
            => /\ status' = [text |-> MsgError(inv[i].result.error), color |-> "red"]
               /\ sheets' = sheets
               /\ active' = active]_vars

\* a run wrote GPM_Q1, a later run deleted it and then failed: the sheet is gone
C9_Witness ==
    /\ AllIdle
    /\ written[outputSheetName(Q1)] # <<>>
    /\ Named(sheets, outputSheetName(Q1)) = {}
    /\ status.color = "red"
    /\ status.text[1] = "Error: "

(***************************************************************************)
(* C10: a click is always possible, also while an invocation is suspended  *)
(* at a context.sync(); and a create is rejected as a duplicate name, or a *)
(* delete finds its sheet gone, only when invocations overlapped.          *)
(***************************************************************************)
C10_NoMutualExclusion ==
    /\ \A i \in Invocations : FreeSlot(i) => ENABLED Click(i)
    /\ (\E i \in Invocations : inv[i].result.error \in {ItemAlreadyExists, ItemNotFound})
          => overlap

\* two invocations for the same period over valid data both saw no output
\* sheet and both queued its create; the first create is done, the second is
\* rejected
C10_Witness ==
    /\ inv[1].pc = "L159" /\ inv[2].pc = "L159"
    /\ inv[1].trimmedPeriod = inv[2].trimmedPeriod
    /\ inv[1].existingSheet.isNullObject /\ inv[2].existingSheet.isNullObject
    /\ inv[1].result = Resolved
    /\ inv[2].result = Rejected(ItemAlreadyExists)

=============================================================================
